---- MODULE Spec2Model ----
(***************************************************************************)
(* p-throttle-ts: a model of src/src/index.ts.                             *)
(*                                                                         *)
(* pThrottle({limit, interval, strict}) checks that limit and interval are *)
(* finite (nothing more) and returns a factory; the factory wraps a        *)
(* callable into `throttled`.  The queue, the windowed state (currentTick, *)
(* activeCount) and the strict state (strictTicks) live in the closure of  *)
(* pThrottle; isEnabled lives on the wrapper.                              *)
(*                                                                         *)
(* The host.  Time is the integer clock read by Date.now(); it moves on    *)
(* whatever the program does, also past the deadline of an armed timer and *)
(* while a callable runs.  setTimeout(execute, d) armed at t has the       *)
(* deadline t + max(d, 0); its callback runs after the call that armed it  *)
(* has returned, no earlier than TimerSlack before the deadline by         *)
(* Date.now() and at any instant after it.  Of two armed timers of equal   *)
(* delay the one armed first runs first; otherwise the host picks.  A      *)
(* delay above TimeoutMax is one the timer does not keep: it waits 1 ms.   *)
(*                                                                         *)
(* The wrapped callable function_ returns a plain value, returns a promise *)
(* (which settles later, or never) or throws, as it chooses at every       *)
(* invocation.  When the promise it returned settles, the Future of the    *)
(* call follows in a later promise job; the program runs in between.       *)
(* While a timer callback is inside function_ (running # 0) the callable   *)
(* may itself call the wrapper, abort() or write isEnabled; so may the     *)
(* `then` accessor of a returned promise, which resolve(...) reads before  *)
(* execute() goes on to queue.delete(timeout).                             *)
(* An exception that escapes a timer callback is uncaught: the host may    *)
(* end the process there.                                                  *)
(*                                                                         *)
(* Spec          every operation, in any interleaving                      *)
(* SpecThrottle  calls and timer firings only (isEnabled stays true and    *)
(*               abort() is not called), the callable returning values     *)
(* SpecAbort     SpecThrottle with abort()                                 *)
(* SpecFair      calls, timer firings and abort() with a host whose clock  *)
(*               runs on, whose eligible timers fire, whose callables come *)
(*               to an end, whose promises settle and whose promise jobs   *)
(*               run                                                       *)
(* SpecShared    two wrappers made by one pThrottle(options)               *)
(* SpecConstruct pThrottle(options) alone, over every kind of number       *)
(***************************************************************************)
EXTENDS Integers, Sequences, FiniteSets

\* ------------------------------------------------------------------ bounds
MaxLimit == 2
MaxInterval == 2
MaxCalls == 2
Horizon == 2

\* Date.now() is milliseconds since 1970: far more than one interval after
\* the initial currentTick = 0.
Epoch == MaxInterval + 1

\* The specifications with fewer operations to interleave issue more calls:
\* those with abort() one more, those without it two more.
MaxAbort == MaxCalls + 1
MaxBurst == MaxCalls + 2

\* By Date.now() a timer callback can run this much before its deadline: the
\* host times it on a clock of its own.
TimerSlack == 1

\* The largest delay the host's timer takes, 2^31 - 1 ms (24.8 days).
TimeoutMax == 2147483647

VARIABLES
    options,       \* the Options record handed to pThrottle
    engine,        \* "none" before pThrottle ran, then "created" or the
                   \* TypeError; "exited" once an uncaught exception ended
                   \* the process
    now,           \* Date.now()
    queue,         \* keys of the Map `queue`: ids of the registered calls
    currentTick,   \* windowed state
    activeCount,   \* windowed state
    strictTicks,   \* strict state, oldest first
    isEnabled,     \* throttled.isEnabled, per wrapper
    calls,         \* one record per call of a wrapper, in invocation order
    running        \* id of the call whose execute() is under way (inside
                   \* function_, or inside resolve(...)), or 0

vars == <<options, engine, now, queue, currentTick, activeCount, strictTicks,
          isEnabled, calls, running>>

\* ------------------------------------------------------------------ numbers
\* A JavaScript number: finite, NaN or an infinity.
Fin(n) == [k |-> "finite", v |-> n]
NaN == [k |-> "NaN", v |-> 0]
PosInfinity == [k |-> "Infinity", v |-> 1]
NegInfinity == [k |-> "Infinity", v |-> -1]

IsFinite(x) == x.k = "finite"

limit == options.limit.v
interval == options.interval.v
strict == options.strict

\* The wrappers the factory has produced: each carries its own isEnabled.
Wrappers == DOMAIN isEnabled

\* How an invocation of function_ ends: it returns a plain value, returns a
\* promise, or throws.
Outcomes == {"value", "promise", "throws"}

\* -------------------------------------------------------------- construction
\* pThrottle's option checks (index.ts 59-65).
pThrottle(o) ==
    IF ~IsFinite(o.limit) THEN "TypeError_limit"
    ELSE IF ~IsFinite(o.interval) THEN "TypeError_interval"
    ELSE "created"

\* ------------------------------------------------------------ delay calculators
\* windowedDelay (index.ts 72-89): the delay and the windowed state after it.
windowedDelay(nw, tick, count, lim, int) ==
    IF nw - tick > int
    THEN [delay |-> 0, currentTick |-> nw, activeCount |-> 1]
    ELSE IF count < lim
         THEN [delay |-> tick - nw, currentTick |-> tick, activeCount |-> count + 1]
         ELSE [delay |-> (tick + int) - nw, currentTick |-> tick + int, activeCount |-> 1]

\* strictTicks.shift()! + interval (index.ts 101): shift() of an empty array
\* is undefined, and undefined + interval is NaN.
shiftPlus(ticks, int) ==
    IF ticks = <<>> THEN NaN
    ELSE IF IsFinite(Head(ticks)) THEN Fin(Head(ticks).v + int)
    ELSE NaN

\* The array after shift().
shifted(ticks) == IF ticks = <<>> THEN <<>> ELSE Tail(ticks)

\* strictDelay with line 108 pushing `now` in place of earliestTime.
strictDelayPushingNow(nw, ticks, lim, int) ==
    IF Len(ticks) < lim
    THEN [delay |-> Fin(0), strictTicks |-> Append(ticks, Fin(nw))]
    ELSE LET earliestTime == shiftPlus(ticks, int)
         IN  IF IsFinite(earliestTime) /\ nw >= earliestTime.v
             THEN [delay |-> Fin(0), strictTicks |-> Append(shifted(ticks), Fin(nw))]
             ELSE [delay |-> IF IsFinite(earliestTime)
                             THEN Fin(earliestTime.v - nw) ELSE NaN,
                   strictTicks |-> Append(shifted(ticks), Fin(nw))]

\* strictDelay (index.ts 93-110): the delay and strictTicks after it; both
\* are JavaScript numbers (now >= NaN is false, NaN - now is NaN).
strictDelay(nw, ticks, lim, int) ==
    IF Len(ticks) < lim
    THEN [delay |-> Fin(0), strictTicks |-> Append(ticks, Fin(nw))]
    ELSE LET earliestTime == shiftPlus(ticks, int)
         IN  IF IsFinite(earliestTime) /\ nw >= earliestTime.v
             THEN [delay |-> Fin(0), strictTicks |-> Append(shifted(ticks), Fin(nw))]
             ELSE [delay |-> IF IsFinite(earliestTime)
                             THEN Fin(earliestTime.v - nw) ELSE NaN,
                   strictTicks |-> Append(shifted(ticks), earliestTime)]

\* getDelay (index.ts 112): the delay and the whole algorithm state after it.
getDelay(nw, tick, count, ticks, lim, int, str) ==
    IF str
    THEN LET r == strictDelay(nw, ticks, lim, int)
         IN  [delay |-> r.delay, currentTick |-> tick, activeCount |-> count,
              strictTicks |-> r.strictTicks]
    ELSE LET r == windowedDelay(nw, tick, count, lim, int)
         IN  [delay |-> Fin(r.delay), currentTick |-> r.currentTick,
              activeCount |-> r.activeCount, strictTicks |-> ticks]

\* The time setTimeout waits for a delay: a negative or NaN delay is none,
\* and a delay above TimeoutMax is taken as 1 ms.
timerDelay(delay) ==
    IF ~IsFinite(delay) \/ delay.v <= 0 THEN 0
    ELSE IF delay.v > TimeoutMax THEN 1
    ELSE delay.v

\* setTimeout(execute, delay) armed at nw: the deadline of the callback.
timerDue(nw, delay) == nw + timerDelay(delay)

\* ------------------------------------------------------------------ helpers
CallIds == 1..Len(calls)

Armed == {i \in CallIds : calls[i].timer = "armed"}

\* The host may run the callback of timer i now: no callback is running, the
\* deadline is at most TimerSlack away by Date.now(), and no timer of the
\* same delay armed before it is still waiting.
HostMayRun(i) ==
    /\ running = 0
    /\ i \in Armed
    /\ now >= calls[i].due - TimerSlack
    /\ \A j \in Armed :
          j < i => timerDelay(calls[j].delay) # timerDelay(calls[i].delay)

\* A promise settles once: resolve and reject after that do nothing.
settle(future, to) == IF future = "pending" THEN to ELSE future

\* resolve(x) has been called on the Future of call c with a promise x: the
\* Future is tied to x, pending until x settles.
Locked(c) == c.result \in {"promise", "fulfils", "rejects"}

\* reject(new AbortError()) on the Future of call c (index.ts 146): nothing
\* when the Future is settled, or tied to a promise by resolve(x).
reject(c) == IF Locked(c) THEN c.future ELSE settle(c.future, "aborted")

\* execute() of the running call is inside function_.
InFunction == running # 0 /\ calls[running].result = "none"

\* execute() of the running call is inside resolve(x), x a promise: resolve
\* has tied the Future to x and reads x.then, an accessor the program may
\* have defined; queue.delete(timeout) is still to come.
InResolve == running # 0 /\ Locked(calls[running])

\* What resolve(x) makes of the Future at once: a plain value fulfils it; a
\* promise leaves it pending, to follow that promise in a job after it has
\* settled, if it ever does; on the async bypass path a throw rejects it.
adopt(outcome) ==
    IF outcome = "value" THEN "fulfilled"
    ELSE IF outcome = "promise" THEN "pending"
    ELSE "rejected"

\* queueSize (index.ts 155-159).
queueSize == Cardinality(queue)

\* ------------------------------------------------------------------ initial
TypeOK ==
    /\ engine \in {"none", "created", "exited", "TypeError_limit",
                   "TypeError_interval"}
    /\ queue \subseteq CallIds
    /\ running \in {0} \cup CallIds
    /\ activeCount \in Nat
    /\ isEnabled \in [Wrappers -> BOOLEAN]
    /\ \A i \in CallIds :
          /\ calls[i].timer \in {"armed", "fired", "cleared", "none"}
          /\ calls[i].result \in Outcomes \cup {"none", "fulfils", "rejects"}
          /\ calls[i].future \in {"pending", "fulfilled", "rejected", "aborted"}
          /\ calls[i].delay = NaN \/ calls[i].delay = Fin(calls[i].delay.v)
          /\ calls[i].due >= calls[i].t

\* The closure state of pThrottle (index.ts 67-70, 91) and of one wrapper
\* (index.ts 153), before any call.
Fresh ==
    /\ now = Epoch
    /\ queue = {}
    /\ currentTick = 0
    /\ activeCount = 0
    /\ strictTicks = <<>>
    /\ isEnabled = [w \in {1} |-> TRUE]
    /\ calls = <<>>
    /\ running = 0

\* The options pThrottle accepts: any finite limit and interval, positive
\* or not (index.ts 59-65).  limit is only ever compared with a count, so a
\* fractional limit acts as the next whole number up.  The intervals are
\* ones whose delays the timer keeps: an interval above TimeoutMax, whose
\* delays it takes as 1 ms, lies beyond these.
FiniteOptions ==
    [limit : {Fin(n) : n \in -1..MaxLimit},
     interval : {Fin(n) : n \in -1..MaxInterval},
     strict : BOOLEAN]

\* A wrapper of an engine built from options pThrottle accepts.
Init ==
    /\ options \in FiniteOptions
    /\ engine = pThrottle(options)
    /\ Fresh

\* ------------------------------------------------------------------ actions
\* throttled(...) while isEnabled (index.ts 129-140): the delay is computed,
\* the timer armed and the reject callback registered under it.
Schedule(w) ==
    LET d == getDelay(now, currentTick, activeCount, strictTicks,
                      limit, interval, strict)
        id == Len(calls) + 1
    IN  /\ queue' = queue \cup {id}
        /\ currentTick' = d.currentTick
        /\ activeCount' = d.activeCount
        /\ strictTicks' = d.strictTicks
        /\ calls' = Append(calls,
               [w |-> w, t |-> now, throttled |-> TRUE, delay |-> d.delay,
                due |-> timerDue(now, d.delay), win |-> d.currentTick,
                timer |-> "armed", invoked |-> FALSE, execAt |-> 0,
                result |-> "none", future |-> "pending"])
        /\ UNCHANGED <<options, engine, now, isEnabled, running>>

\* The bypass path with the delay calculator still run (and its delay dropped).
BypassCounting(w) ==
    LET d == getDelay(now, currentTick, activeCount, strictTicks,
                      limit, interval, strict)
    IN  /\ currentTick' = d.currentTick
        /\ activeCount' = d.activeCount
        /\ strictTicks' = d.strictTicks
        /\ \E o \in Outcomes :
              calls' = Append(calls,
                  [w |-> w, t |-> now, throttled |-> FALSE, delay |-> Fin(0),
                   due |-> now, win |-> 0,
                   timer |-> "none", invoked |-> TRUE, execAt |-> now,
                   result |-> o, future |-> adopt(o)])
        /\ UNCHANGED <<options, engine, now, queue, isEnabled, running>>

\* throttled(...) while !isEnabled (index.ts 124-127): function_ runs inside
\* the call, in an async function whose promise is the one returned.
Bypass(w) ==
    /\ \E o \in Outcomes :
          calls' = Append(calls,
              [w |-> w, t |-> now, throttled |-> FALSE, delay |-> Fin(0),
               due |-> now, win |-> 0,
               timer |-> "none", invoked |-> TRUE, execAt |-> now,
               result |-> o, future |-> adopt(o)])
    /\ UNCHANGED <<options, engine, now, queue, currentTick, activeCount,
                   strictTicks, isEnabled, running>>

\* throttled(...) (index.ts 121-141).
Call(w) ==
    /\ engine = "created"
    /\ IF isEnabled[w] THEN Schedule(w) ELSE Bypass(w)

\* execute() starts and enters function_ (index.ts 131-133).
execute(i) ==
    /\ engine = "created"
    /\ calls' = [calls EXCEPT ![i].timer = "fired", ![i].invoked = TRUE,
                              ![i].execAt = now]
    /\ running' = i
    /\ UNCHANGED <<options, engine, now, queue, currentTick, activeCount,
                   strictTicks, isEnabled>>

\* The host runs the callback of timer i.
Fire(i) == HostMayRun(i) /\ execute(i)

\* function_ returns o and resolve(o) is called (index.ts 133).  A plain
\* value fulfils the Future and execute() goes straight on to
\* queue.delete(timeout) (index.ts 134).  A promise ties the Future to it,
\* and resolve reads its `then`: execute() is still under way, the call
\* still in the queue.
Return(o) ==
    /\ engine = "created"
    /\ InFunction
    /\ calls' = [calls EXCEPT ![running].result = o,
                              ![running].future = settle(@, adopt(o))]
    /\ queue' = IF o = "promise" THEN queue ELSE queue \ {running}
    /\ running' = IF o = "promise" THEN running ELSE 0
    /\ UNCHANGED <<options, engine, now, currentTick, activeCount, strictTicks,
                   isEnabled>>

\* resolve(x) returns and queue.delete(timeout) ends execute() (index.ts 134).
Delete ==
    /\ engine = "created"
    /\ InResolve
    /\ queue' = queue \ {running}
    /\ running' = 0
    /\ UNCHANGED <<options, engine, now, currentTick, activeCount, strictTicks,
                   isEnabled, calls>>

\* function_ throws: the exception leaves execute() before resolve(...) and
\* before queue.delete(timeout) (index.ts 131-135 has no try/catch), and
\* leaves the timer callback uncaught: the host goes on, or ends the process.
Throw ==
    /\ engine = "created"
    /\ InFunction
    /\ calls' = [calls EXCEPT ![running].result = "throws"]
    /\ running' = 0
    /\ engine' \in {"created", "exited"}
    /\ UNCHANGED <<options, now, queue, currentTick, activeCount, strictTicks,
                   isEnabled>>

\* The promise function_ returned for call i settles, whatever has become
\* of the call's Future; the Future is not touched in this step.
Settle(i) ==
    /\ engine = "created"
    /\ calls[i].result = "promise"
    /\ \E o \in {"fulfils", "rejects"} :
          calls' = [calls EXCEPT ![i].result = o]
    /\ UNCHANGED <<options, engine, now, queue, currentTick, activeCount,
                   strictTicks, isEnabled, running>>

\* A promise job, run once no program code is on the stack: the Future that
\* resolve(...) (index.ts 133) or the async bypass (index.ts 126) tied to
\* the promise of call i follows it.  A Future that abort() rejected before
\* resolve(...) ran stays as it is, and the job changes nothing.
Follow(i) ==
    /\ engine = "created"
    /\ running = 0
    /\ calls[i].result \in {"fulfils", "rejects"}
    /\ calls[i].future = "pending"
    /\ calls' = [calls EXCEPT
           ![i].future = IF calls[i].result = "fulfils"
                         THEN "fulfilled" ELSE "rejected"]
    /\ UNCHANGED <<options, engine, now, queue, currentTick, activeCount,
                   strictTicks, isEnabled, running>>

\* abort() without line 150, strictTicks.splice(0, strictTicks.length).
AbortKeepingTicks(w) ==
    /\ engine = "created"
    /\ calls' = [i \in CallIds |->
           IF i \in queue
           THEN [calls[i] EXCEPT
                    !.timer = IF @ = "armed" THEN "cleared" ELSE @,
                    !.future = reject(calls[i])]
           ELSE calls[i]]
    /\ queue' = {}
    /\ UNCHANGED <<options, engine, now, currentTick, activeCount, strictTicks,
                   isEnabled, running>>

\* throttled.abort() (index.ts 143-151): clearTimeout and reject for every
\* key of the queue, then the queue and strictTicks are emptied.  A call
\* whose execute() is under way is still a key of the queue.
Abort(w) ==
    /\ engine = "created"
    /\ calls' = [i \in CallIds |->
           IF i \in queue
           THEN [calls[i] EXCEPT
                    !.timer = IF @ = "armed" THEN "cleared" ELSE @,
                    !.future = reject(calls[i])]
           ELSE calls[i]]
    /\ queue' = {}
    /\ strictTicks' = <<>>
    /\ UNCHANGED <<options, engine, now, currentTick, activeCount, isEnabled,
                   running>>

\* An isEnabled setter that drops the pending calls when it disables.
SetEnabledCancelling(w, b) ==
    /\ engine = "created"
    /\ b # isEnabled[w]
    /\ isEnabled' = [isEnabled EXCEPT ![w] = b]
    /\ calls' = [i \in CallIds |->
           IF i \in queue /\ ~b
           THEN [calls[i] EXCEPT !.timer = IF @ = "armed" THEN "cleared" ELSE @]
           ELSE calls[i]]
    /\ queue' = IF b THEN queue ELSE {}
    /\ UNCHANGED <<options, engine, now, currentTick, activeCount,
                   strictTicks, running>>

\* throttled.isEnabled = b (index.ts 36, 153): a plain property write.
SetEnabled(w, b) ==
    /\ engine = "created"
    /\ b # isEnabled[w]
    /\ isEnabled' = [isEnabled EXCEPT ![w] = b]
    /\ UNCHANGED <<options, engine, now, queue, currentTick, activeCount,
                   strictTicks, calls, running>>

\* The clock advances, whatever is armed, due or running.
Tick ==
    /\ engine = "created"
    /\ now < Epoch + Horizon
    /\ now' = now + 1
    /\ UNCHANGED <<options, engine, queue, currentTick, activeCount, strictTicks,
                   isEnabled, calls, running>>

\* Past the horizon the clock still runs on, as long as a timer is armed
\* whose deadline it has not passed.
Elapse ==
    /\ engine = "created"
    /\ now >= Epoch + Horizon
    /\ \E i \in Armed : now <= calls[i].due
    /\ now' = now + 1
    /\ UNCHANGED <<options, engine, queue, currentTick, activeCount, strictTicks,
                   isEnabled, calls, running>>

\* Calls, timer firings, abort() and isEnabled writes in any interleaving;
\* function_ may itself call the wrapper, abort() or write isEnabled.
Next ==
    \/ \E w \in Wrappers : Len(calls) < MaxCalls /\ Call(w)
    \/ \E i \in CallIds : Fire(i)
    \/ \E o \in {"value", "promise"} : Return(o)
    \/ Delete
    \/ Throw
    \/ \E i \in CallIds : Settle(i)
    \/ \E i \in CallIds : Follow(i)
    \/ \E w \in Wrappers : Abort(w)
    \/ \E w \in Wrappers, b \in BOOLEAN : SetEnabled(w, b)
    \/ Tick

Spec == Init /\ [][Next]_vars

\* isEnabled true throughout and no abort(): only calls and timer firings,
\* of a callable that returns plain values (how function_ ends never reaches
\* currentTick, activeCount or strictTicks).
NextThrottle ==
    \/ \E w \in Wrappers : Len(calls) < MaxBurst /\ Call(w)
    \/ \E i \in CallIds : Fire(i)
    \/ Return("value")
    \/ Tick

SpecThrottle == Init /\ [][NextThrottle]_vars

\* The same with abort().
NextAbort ==
    \/ \E w \in Wrappers : Len(calls) < MaxAbort /\ Call(w)
    \/ \E i \in CallIds : Fire(i)
    \/ Return("value")
    \/ \E w \in Wrappers : Abort(w)
    \/ Tick

SpecAbort == Init /\ [][NextAbort]_vars

\* Calls, timer firings and abort() with the host's guarantees: time passes,
\* a timer that may run and is not cleared does run, function_ comes to an
\* end, the promise it returned settles and the promise jobs run.
NextFair ==
    \/ \E w \in Wrappers : Len(calls) < MaxCalls /\ Call(w)
    \/ \E i \in CallIds : Fire(i)
    \/ \E o \in {"value", "promise"} : Return(o)
    \/ Delete
    \/ Throw
    \/ \E i \in CallIds : Settle(i)
    \/ \E i \in CallIds : Follow(i)
    \/ \E w \in Wrappers : Abort(w)
    \/ Tick
    \/ Elapse

SpecFair ==
    /\ Init
    /\ [][NextFair]_vars
    /\ WF_vars(Tick)
    /\ WF_vars(Elapse)
    /\ WF_vars(\E i \in CallIds : Fire(i))
    /\ WF_vars(Throw \/ \E o \in {"value", "promise"} : Return(o))
    /\ WF_vars(Delete)
    /\ WF_vars(\E i \in CallIds : Settle(i))
    /\ WF_vars(\E i \in CallIds : Follow(i))

\* Two wrappers made by one factory, `throttle(f)` and `throttle(g)` of one
\* `throttle = pThrottle(options)`: queue, currentTick, activeCount and
\* strictTicks are the variables of that one closure (index.ts 67-70, 91);
\* each wrapper has its own function_ and isEnabled (index.ts 114, 153).
InitShared ==
    /\ options \in FiniteOptions
    /\ engine = pThrottle(options)
    /\ now = Epoch
    /\ queue = {}
    /\ currentTick = 0
    /\ activeCount = 0
    /\ strictTicks = <<>>
    /\ isEnabled = [w \in {1, 2} |-> TRUE]
    /\ calls = <<>>
    /\ running = 0

\* Calls and abort() on either wrapper, and the timers.
NextShared ==
    \/ \E w \in Wrappers : Len(calls) < MaxCalls /\ Call(w)
    \/ \E i \in CallIds : Fire(i)
    \/ Return("value")
    \/ \E w \in Wrappers : Abort(w)
    \/ Tick

SpecShared == InitShared /\ [][NextShared]_vars

\* ------------------------------------------------------------ construction
\* Numbers an Options field may hold.
Numbers == {NaN, PosInfinity, NegInfinity} \cup {Fin(n) : n \in -1..MaxLimit}

InitConstruct ==
    /\ options \in [limit : Numbers, interval : Numbers, strict : BOOLEAN]
    /\ engine = "none"
    /\ Fresh

\* pThrottle(options) runs: it throws a TypeError or returns the factory.
Construct ==
    /\ engine = "none"
    /\ engine' = pThrottle(options)
    /\ UNCHANGED <<options, now, queue, currentTick, activeCount, strictTicks,
                   isEnabled, calls, running>>

SpecConstruct == InitConstruct /\ [][Construct]_vars

\* ================================================================== claims
\* Effective execution time of a throttled call: call time + delay, a number
\* when the delay is one.
effective(i) == calls[i].t + calls[i].delay.v

\* Call i's effective execution time lies in [ws, ws + interval).
EffectiveIn(i, ws) ==
    /\ IsFinite(calls[i].delay)
    /\ ws <= effective(i)
    /\ effective(i) < ws + interval

\* Call i's timer is due in [ws, ws + interval): the host runs its callback
\* then, or later.
DueIn(i, ws) == ws <= calls[i].due /\ calls[i].due < ws + interval

\* Options as they are documented to be: a positive limit and interval.
PositiveOptions == limit >= 1 /\ interval >= 1

\* The instants a window can start at, within the model's reach.
Instants == 0..(Epoch + Horizon + MaxBurst * MaxInterval)

\* The enabled calls.
Throttled == {i \in CallIds : calls[i].throttled}

\* The values currentTick has taken: 0 and the window of every call.
WindowStarts == {0} \cup {calls[i].win : i \in Throttled}

\* C1: strict mode with limit >= 1, isEnabled true throughout and no abort():
\* every half-open window of length interval holds the effective execution
\* times (call time + delay) of at most limit calls.
C1_StrictWindowHoldsLimit ==
    strict /\ limit >= 1 =>
        \A ws \in Instants :
            Cardinality({i \in CallIds : EffectiveIn(i, ws)}) <= limit

\* A strict engine with limit 2 that has pushed a call out of a full window.
C1_Witness ==
    /\ strict
    /\ limit = 2
    /\ \E i \in CallIds :
          IsFinite(calls[i].delay) /\ calls[i].delay.v > 0 /\ calls[i].t > Epoch

\* C2: windowed mode with limit >= 1, isEnabled true throughout: at most
\* limit calls are set to execute inside any window
\* [windowStart, windowStart + interval), windowStart being any value
\* currentTick has taken.
C2_WindowHoldsLimit ==
    ~strict /\ limit >= 1 =>
        \A ws \in WindowStarts :
            Cardinality({i \in CallIds : DueIn(i, ws)}) <= limit

\* C10: in both modes (with a positive limit and interval) the delay computed
\* for a call and handed to the timer is never negative.
C10_DelayNonNegative ==
    PositiveOptions =>
        \A i \in Throttled : IsFinite(calls[i].delay) /\ calls[i].delay.v >= 0

\* A call is outstanding from its invocation until its execute() has run to
\* its end or abort() has caught it.
Outstanding(i) ==
    /\ calls[i].throttled
    /\ calls[i].future # "aborted"
    /\ calls[i].timer = "armed" \/ running = i

\* C3: at every observation point (of an engine with a positive limit and
\* interval) queueSize is the number of enabled calls issued that have
\* neither fired nor been aborted.
C3_QueueSizeIsOutstanding ==
    PositiveOptions /\ engine = "created" =>
        queueSize = Cardinality({i \in CallIds : Outstanding(i)})

\* A step of abort(): every other operation adds a call, moves `running`,
\* records how function_ or its promise ended, fulfils or rejects a Future
\* as its promise did, writes isEnabled or advances the clock.
AbortStep ==
    /\ Len(calls') = Len(calls)
    /\ running' = running
    /\ isEnabled' = isEnabled
    /\ now' = now
    /\ \A i \in CallIds :
          /\ calls'[i].result = calls[i].result
          /\ calls'[i].future \in {calls[i].future, "aborted"}

\* C4: right after abort() returns (on an engine with a positive limit and
\* interval), every call registered when it was invoked has its Future
\* rejected with AbortError and queueSize is 0, in both modes and whatever
\* isEnabled is.
C4_AbortRejectsAllAndEmpties ==
    [][PositiveOptions /\ AbortStep =>
          /\ queueSize' = 0
          /\ \A i \in queue : calls'[i].future = "aborted"]_vars

\* C5: a call (of an engine with a positive limit and interval) whose Future
\* is rejected with AbortError never has its wrapped callable invoked.
C5_AbortedNeverInvoked ==
    PositiveOptions =>
      \A i \in CallIds : calls[i].future = "aborted" => ~calls[i].invoked

\* A step of a call made while isEnabled is false.
BypassStep ==
    /\ Len(calls') = Len(calls) + 1
    /\ ~isEnabled[calls'[Len(calls')].w]

\* C6: a call made while isEnabled is false invokes the callable within the
\* call, hands back its result or failure (a value fulfils the Future, a
\* throw rejects it, a promise is followed), and leaves the queue, the
\* windowed state and the strict timestamps as they were.
C6_BypassLeavesStateAlone ==
    [][BypassStep =>
          LET c == calls'[Len(calls')]
          IN  /\ c.invoked /\ c.execAt = now /\ c.timer = "none"
              /\ \/ c.result = "value" /\ c.future = "fulfilled"
                 \/ c.result = "throws" /\ c.future = "rejected"
                 \/ c.result = "promise" /\ c.future = "pending"
              /\ UNCHANGED <<queue, currentTick, activeCount, strictTicks>>]_vars

\* A bypassed call was just made while the engine held pending calls and
\* algorithm state.
C6_Witness ==
    /\ PositiveOptions
    /\ Len(calls) > 1
    /\ ~calls[Len(calls)].throttled
    /\ queueSize > 0
    /\ activeCount > 0 \/ strictTicks # <<>>

\* C7: writing isEnabled cancels nothing: the queue and every pending call
\* stay as they were; no step moves the deadline of a call, and the callable
\* of a throttled call is invoked from its armed timer, at its deadline (as
\* closely as the host keeps it), whatever isEnabled is by then.
C7_DisableCancelsNothing ==
    [][/\ (isEnabled' # isEnabled => UNCHANGED <<queue, calls, currentTick,
                                                 activeCount, strictTicks>>)
       /\ \A i \in CallIds :
             /\ calls'[i].due = calls[i].due
             /\ calls[i].throttled /\ ~calls[i].invoked /\ calls'[i].invoked
                   => /\ calls[i].timer = "armed"
                      /\ i \in queue'
                      /\ calls'[i].execAt >= calls[i].due - TimerSlack]_vars

\* A call that was pending when its wrapper was disabled fires, at a later
\* instant than it was issued at, after a later call was bypassed.
C7_Witness ==
    /\ PositiveOptions
    /\ running # 0
    /\ ~isEnabled[calls[running].w]
    /\ \E j \in CallIds :
          /\ j > running
          /\ ~calls[j].throttled
          /\ calls[running].execAt > calls[j].t

\* C8: when the callable of a fired call (of an engine with a positive limit
\* and interval) fails, the call's Future is rejected with that failure: at
\* once when it throws, and when it returned a promise that rejects, in the
\* promise job that follows (the Future is pending until then).
C8_CalleeFailurePropagates ==
    PositiveOptions =>
      \A i \in Throttled :
        /\ calls[i].result = "throws" => calls[i].future = "rejected"
        /\ calls[i].result = "rejects" =>
              calls[i].future \in {"pending", "rejected"}

\* A finite positive value, as the options are documented to be.
IsFinitePositive(x) == IsFinite(x) /\ x.v > 0

\* C9: pThrottle fails exactly when limit or interval is not a finite
\* positive value.
C9_ConstructionChecksOptions ==
    engine # "none" =>
        (engine = "created" <=>
            IsFinitePositive(options.limit) /\ IsFinitePositive(options.interval))

\* The delay the next enabled call would be given in this state.
nextDelay ==
    getDelay(now, currentTick, activeCount, strictTicks,
             limit, interval, strict).delay

\* A step of a call on wrapper w.
CallStepOf(w) ==
    /\ Len(calls') = Len(calls) + 1
    /\ calls'[Len(calls')].w = w

\* What wrapper v can observe is as it was: its queueSize, the Futures and
\* timers of its calls, and the delay its next call would get.
Untouched(v) ==
    /\ queueSize' = queueSize
    /\ \A i \in CallIds :
          calls[i].w = v =>
              /\ calls'[i].future = calls[i].future
              /\ calls'[i].timer = calls[i].timer
    /\ nextDelay' = nextDelay

\* C11: of two wrappers made by one pThrottle(options), with a positive limit
\* and interval, a call or abort() on one leaves the other's queueSize, its
\* pending calls' outcomes and the delays of its future calls unchanged.
C11_WrapperStateIsLocal ==
    [][PositiveOptions =>
          /\ \A w \in Wrappers :
                CallStepOf(w) => \A v \in Wrappers \ {w} : Untouched(v)
          /\ AbortStep =>
                \E w \in Wrappers : \A v \in Wrappers \ {w} : Untouched(v)]_vars

\* C12: with every timer that is not cleared firing in the end, every enabled
\* call's Future (of an engine with a positive limit and interval) is settled
\* in the end, by function_'s result or failure or by AbortError, and its
\* queue entry removed, as long as the process lives.
C12_EveryCallSettles ==
    \A k \in 1..MaxCalls :
        (PositiveOptions /\ k \in CallIds /\ calls[k].throttled)
            ~> \/ k \in CallIds /\ calls[k].future # "pending" /\ k \notin queue
               \/ engine = "exited"

\* A step of a call made while isEnabled is true.
ScheduleStep ==
    /\ Len(calls') = Len(calls) + 1
    /\ calls'[Len(calls')].throttled

\* C13: in strict mode strictTicks is empty right after abort(), and a call
\* that finds fewer than limit timestamps is given delay 0 and adds one: the
\* next limit enabled calls after abort() get delay 0, whatever was admitted
\* or executed before.
C13_AbortFreshensStrict ==
    [][strict =>
          /\ AbortStep => strictTicks' = <<>>
          /\ ScheduleStep /\ Len(strictTicks) < limit =>
                /\ calls'[Len(calls')].delay = Fin(0)
                /\ Len(strictTicks') = Len(strictTicks) + 1]_vars

\* A strict call was delayed and then aborted; the next call, made at the
\* same instant, was given delay 0.
C13_Witness ==
    /\ strict
    /\ \E i, j \in CallIds :
          /\ i < j
          /\ calls[i].future = "aborted"
          /\ IsFinite(calls[i].delay) /\ calls[i].delay.v > 0
          /\ calls[j].throttled /\ calls[j].t = calls[i].t
          /\ calls[j].delay = Fin(0)

\* Calls 1..i were all issued at one instant, the first on the fresh engine.
Burst(i) == \A j \in 1..i : calls[j].t = calls[1].t

\* C14: of N enabled calls issued at one instant on a fresh throttle, in
\* either mode, at most limit share a firing instant, and the i-th (0-based)
\* is given delay floor(i/limit) * interval and is set to fire that long
\* after the first.
C14_BurstSchedule ==
    \A i \in CallIds :
        Burst(i) =>
            /\ Cardinality({j \in 1..i : calls[j].due = calls[i].due}) <= limit
            /\ calls[i].delay = Fin(((i - 1) \div limit) * interval)
            /\ calls[i].due = calls[1].t + ((i - 1) \div limit) * interval

Max(a, b) == IF a >= b THEN a ELSE b

\* The instants at which the timers of enabled calls issued at `times`
\* (non-decreasing) are due, from the given algorithm state on.
RECURSIVE schedule(_, _, _, _, _, _, _)
schedule(times, tick, count, ticks, lim, int, str) ==
    IF times = <<>>
    THEN <<>>
    ELSE LET d == getDelay(Head(times), tick, count, ticks, lim, int, str)
         IN  <<timerDue(Head(times), d.delay)>>
                 \o schedule(Tail(times), d.currentTick, d.activeCount,
                             d.strictTicks, lim, int, str)

\* test/utils.ts 261-339: one call, a pause of 40 ms, eleven calls at once
\* (the clock reads 1000 at the first call).
PauseScenario == <<1000>> \o [i \in 1..11 |-> 1040]

\* C15's example: limit 10, interval 100, one call at 0 then eleven at 40
\* execute at 40 (nine calls), 100 and 140.
C15_Example ==
    schedule(PauseScenario, 0, 0, <<>>, 10, 100, TRUE)
        = <<1000>> \o [i \in 1..9 |-> 1040] \o <<1100, 1140>>

\* C15: strict mode without abort(): the k-th enabled call (1-based, issued
\* at t_k) has the effective execution time e_k = t_k for k <= limit and
\* e_k = max(t_k, e_(k-limit) + interval) for k > limit.
C15_StrictSchedule ==
    /\ C15_Example
    /\ strict =>
          \A k \in CallIds :
              /\ IsFinite(calls[k].delay)
              /\ effective(k) =
                    IF k <= limit
                    THEN calls[k].t
                    ELSE Max(calls[k].t, effective(k - limit) + interval)

\* The window [currentTick, currentTick + interval] is still the one calls are
\* admitted to, and it is full, or has room.
WindowFull == now - currentTick <= interval /\ activeCount = limit
WindowHasRoom == now - currentTick <= interval /\ activeCount < limit

\* Calls pushed to a window that started after they were issued are due at
\* its start, at most limit of them per window.
OverflowTogether ==
    \A i \in Throttled :
        calls[i].win > calls[i].t =>
            /\ calls[i].due = calls[i].win
            /\ Cardinality({j \in Throttled :
                   /\ calls[j].win = calls[i].win
                   /\ calls[j].t < calls[j].win}) <= limit

\* C16's example: limit 10, interval 100, one call at 0 then eleven at 40
\* execute at 40 (nine calls) and at 100 (two calls).
C16_Example ==
    schedule(PauseScenario, 0, 0, <<>>, 10, 100, FALSE)
        = <<1000>> \o [i \in 1..9 |-> 1040] \o <<1100, 1100>>

\* C16: windowed mode: a call that finds the window full moves currentTick on
\* by exactly interval and is due at the new currentTick; a call that finds
\* room in a window that has started runs at once; a call that finds room in
\* a window that overflow has opened ahead of the clock is due at that
\* window's start, with at most limit calls per such window.
C16_OverflowToNextBoundary ==
    [][/\ C16_Example
       /\ ~strict /\ ScheduleStep =>
             LET c == calls'[Len(calls')]
             IN  /\ WindowFull =>
                       /\ currentTick' = currentTick + interval
                       /\ c.due = currentTick'
                 /\ WindowHasRoom /\ currentTick <= now => c.due = now
                 /\ WindowHasRoom /\ currentTick > now =>
                       /\ currentTick' = currentTick
                       /\ c.due = currentTick
                 /\ OverflowTogether']_vars

\* C17: in every reachable state, under any interleaving of enabled calls and
\* abort(), strictTicks holds at most limit timestamps (limit not negative),
\* in non-decreasing order, oldest first.
C17_StrictTicksBoundedAndOrdered ==
    limit >= 0 =>
        /\ Len(strictTicks) <= limit
        /\ \A a, b \in 1..Len(strictTicks) :
              a <= b =>
                  /\ IsFinite(strictTicks[a]) /\ IsFinite(strictTicks[b])
                  /\ strictTicks[a].v <= strictTicks[b].v

\* C18: strict mode (with limit >= 1) and isEnabled true throughout, under
\* any interleaving of calls, timer firings and abort(): every half-open
\* window of length interval holds the execution times of at most limit
\* invocations of the callable, each taken at its timer's deadline.
C18_StrictLimitAcrossAbort ==
    strict /\ limit >= 1 =>
        \A ws \in Instants :
            Cardinality({i \in CallIds : calls[i].invoked /\ DueIn(i, ws)})
                <= limit

\* The host runs the callback of timer j in this step.
Fires(j) == calls[j].timer = "armed" /\ calls'[j].timer = "fired"

\* Timer j is the one a timer that keeps deadline order, and arming order
\* among equal deadlines, runs next.
DeadlineFirst(j) ==
    \A k \in Armed \ {j} :
        \/ calls[k].due > calls[j].due
        \/ calls[k].due = calls[j].due /\ j < k

\* Every enabled call issued before j that was not aborted has had its
\* callable invoked.
EarlierInvoked(j) ==
    \A i \in Throttled :
        i < j /\ calls[i].future # "aborted" => calls[i].invoked

\* Call i is scheduled no later than call j.
ScheduledBefore(i, j) ==
    /\ IsFinite(calls[i].delay)
    /\ IsFinite(calls[j].delay)
    /\ effective(i) <= effective(j)

\* Call time + delay is non-decreasing in the order the enabled calls were
\* issued.
ScheduledInOrder == \A i, j \in Throttled : i < j => ScheduledBefore(i, j)

\* C19: in both modes call time + delay is non-decreasing in the order the
\* enabled calls were issued, and so, whenever the host runs the timer that
\* is first in deadline order (first armed among equal deadlines), every
\* earlier enabled call that was not aborted has been invoked before it.
C19_ScheduledInInvocationOrder ==
    [][/\ ScheduledInOrder'
       /\ \A j \in CallIds :
             Fires(j) /\ DeadlineFirst(j) => EarlierInvoked(j)]_vars

\* C20: in both modes (with a positive limit and interval) an enabled call
\* issued while queueSize is 0 (all earlier calls have fired, or abort()
\* emptied the queue) is given a delay of at most interval.
C20_NoBacklogWithoutQueue ==
    [][PositiveOptions /\ ScheduleStep /\ queueSize = 0 =>
          /\ IsFinite(calls'[Len(calls')].delay)
          /\ calls'[Len(calls')].delay.v <= interval]_vars

====
